---- MODULE Spec2Model ----
(***************************************************************************)
(* Model of the dashboard analytics aggregation layer (saleReport): the   *)
(* aggregation pipelines documented in                                    *)
(* docs/DASHBOARD_PERFORMANCE_OPTIMIZATION.md and the Promise.all batch   *)
(* that runs them.  Time is counted in hours from 1 January 00:00 of      *)
(* BaseYear; every year has 365 days.  Money is counted in integer cents. *)
(***************************************************************************)
EXTENDS Integers, Sequences, FiniteSets, TLC

\* ------------------------------------------------------------------ bounds
MaxFailures == 1        \* sub-queries of one call that may fail in transport
MaxRuns == 2            \* invocations of the handler in one behaviour

\* ---------------------------------------------------------------- calendar
BaseYear == 2025
HoursPerYear == 365 * 24
DaysBeforeMonth == <<0, 31, 59, 90, 120, 151, 181, 212, 243, 273, 304, 334>>

YearOf(t) == BaseYear + (t \div HoursPerYear)
DayOfYear(t) == (t % HoursPerYear) \div 24

\* $month: calendar month 1..12 of a timestamp
MonthOf(t) ==
  CHOOSE m \in 1..12 :
    /\ DaysBeforeMonth[m] <= DayOfYear(t)
    /\ (m = 12 \/ DayOfYear(t) < DaysBeforeMonth[m + 1])

\* $hour: hour of day 0..23 of a timestamp
HourOf(t) == t % 24

MinSupportedYear == 2000
MaxSupportedYear == 2100

\* ------------------------------------------------------------ record store
\* Sales transactions the store may hold.
SaleUniverse ==
  { [id |-> 1, createdAt |-> 100, status |-> "COMPLETED", totalAmount |-> 1000,
     costOfGoods |-> 600, grossProfit |-> 400, paymentMethod |-> "CASH", cashierId |-> 1],
    [id |-> 2, createdAt |-> 200, status |-> "COMPLETED", totalAmount |-> 2000,
     costOfGoods |-> 1200, grossProfit |-> 800, paymentMethod |-> "CARD", cashierId |-> 2],
    [id |-> 3, createdAt |-> 300, status |-> "COMPLETED", totalAmount |-> 1500,
     costOfGoods |-> 900, grossProfit |-> 600, paymentMethod |-> "CASH", cashierId |-> 1],
    [id |-> 4, createdAt |-> 200, status |-> "REFUNDED", totalAmount |-> 500,
     costOfGoods |-> 300, grossProfit |-> 200, paymentMethod |-> "CASH", cashierId |-> 2],
    [id |-> 5, createdAt |-> 1526, status |-> "COMPLETED", totalAmount |-> 110,
     costOfGoods |-> 50, grossProfit |-> 60, paymentMethod |-> "CARD", cashierId |-> 1],
    [id |-> 6, createdAt |-> 8770, status |-> "COMPLETED", totalAmount |-> 220,
     costOfGoods |-> 100, grossProfit |-> 120, paymentMethod |-> "CASH", cashierId |-> 2],
    [id |-> 7, createdAt |-> 300, status |-> "VOIDED", totalAmount |-> 700,
     costOfGoods |-> 400, grossProfit |-> 300, paymentMethod |-> "CARD", cashierId |-> 1] }

\* Line items (saleItemSchema): each belongs to exactly one sale.
SaleItemUniverse ==
  { [id |-> 1, saleId |-> 1, productId |-> 1, quantity |-> 2],
    [id |-> 2, saleId |-> 2, productId |-> 2, quantity |-> 2],
    [id |-> 3, saleId |-> 2, productId |-> 1, quantity |-> 1],
    [id |-> 4, saleId |-> 3, productId |-> 3, quantity |-> 3],
    [id |-> 5, saleId |-> 4, productId |-> 2, quantity |-> 1],
    [id |-> 6, saleId |-> 5, productId |-> 1, quantity |-> 1],
    [id |-> 7, saleId |-> 6, productId |-> 3, quantity |-> 4],
    [id |-> 8, saleId |-> 1, productId |-> 4, quantity |-> 1],
    [id |-> 9, saleId |-> 2, productId |-> 5, quantity |-> 1],
    [id |-> 10, saleId |-> 3, productId |-> 6, quantity |-> 1],
    [id |-> 11, saleId |-> 7, productId |-> 6, quantity |-> 5] }

SaleIds == { s.id : s \in SaleUniverse }

\* The three collections of a store that holds the sales with the given ids.
StoreOf(ids) ==
  LET S == { s \in SaleUniverse : s.id \in ids } IN
  [ sales  |-> S,
    items  |-> { it \in SaleItemUniverse : \E s \in S : s.id = it.saleId },
    drawer |-> { [id |-> s.id, createdAt |-> s.createdAt, type |-> "SALE",
                  amount |-> s.totalAmount, paymentMethod |-> s.paymentMethod,
                  cashierId |-> s.cashierId] : s \in { x \in S : x.status = "COMPLETED" } } ]

\* A store is named by the ids of the sales it holds.
AllStores == SUBSET SaleIds

\* ---------------------------------------------------------------- requests
PeriodInstants == {100, 200, 300}
YearChoices == {BaseYear, BaseYear + 1, MaxSupportedYear + 1}

Requests ==
  [ periodStart : PeriodInstants, periodEnd : PeriodInstants,
    compareToPrevious : BOOLEAN, year : YearChoices ]

NoRequest == [ periodStart |-> 0, periodEnd |-> 0, compareToPrevious |-> FALSE, year |-> 0 ]

\* --------------------------------------------------------------- pipelines
RECURSIVE SumBy(_, _)
\* { $sum: "$field" } over a set of documents
SumBy(S, f) ==
  IF S = {} THEN 0
  ELSE LET r == CHOOSE x \in S : TRUE IN r[f] + SumBy(S \ {r}, f)

\* dateFilter: status COMPLETED, createdAt within the inclusive window
DateFilter(rq, s) ==
  /\ s.status = "COMPLETED"
  /\ rq.periodStart <= s.createdAt
  /\ s.createdAt <= rq.periodEnd

\* the window of equal length immediately before the period, half-open
PrevPeriodStart(rq) == rq.periodStart - (rq.periodEnd - rq.periodStart)


\* Variant: the preceding window is closed at periodStart.
PrevPeriodMatchClosed(rq, s) ==
  /\ s.status = "COMPLETED"
  /\ PrevPeriodStart(rq) <= s.createdAt
  /\ s.createdAt <= rq.periodStart

PrevPeriodMatch(rq, s) ==
  /\ s.status = "COMPLETED"
  /\ PrevPeriodStart(rq) <= s.createdAt
  /\ s.createdAt < rq.periodStart

\* refund filter: status REFUNDED inside the period
RefundFilter(rq, s) ==
  /\ s.status = "REFUNDED"
  /\ rq.periodStart <= s.createdAt
  /\ s.createdAt <= rq.periodEnd

\* year filter of the monthly trend
YearFilter(rq, s) ==
  /\ s.status = "COMPLETED"
  /\ YearOf(s.createdAt) = rq.year

\* Variant: totalAmountSales sums the wrong field.
StatsGroupWrongField(S) ==
  IF S = {} THEN {}
  ELSE { [ totalAmountSales     |-> SumBy(S, "grossProfit"),
           totalCostOfGoods     |-> SumBy(S, "costOfGoods"),
           grossProfit          |-> SumBy(S, "grossProfit"),
           numberOfTransactions |-> Cardinality(S) ] }

\* $group { _id: null, ... }: no document for an empty input
StatsGroup(S) ==
  IF S = {} THEN {}
  ELSE { [ totalAmountSales     |-> SumBy(S, "totalAmount"),
           totalCostOfGoods     |-> SumBy(S, "costOfGoods"),
           grossProfit          |-> SumBy(S, "grossProfit"),
           numberOfTransactions |-> Cardinality(S) ] }

\* $lookup sales + $unwind + $match: the line items whose sale passes the filter
JoinItems(st, rq) ==
  { it \in st.items : \E s \in st.sales : s.id = it.saleId /\ DateFilter(rq, s) }


\* Variant: the $match stage is missing from the pipeline.
CurrentPeriodQueryNoMatch(st, rq) == StatsGroup(st.sales)

\* Query 1: current-period summary
CurrentPeriodQuery(st, rq) ==
  StatsGroup({ s \in st.sales : DateFilter(rq, s) })

\* Query 2: items-sold summary
ItemsStatsQuery(st, rq) ==
  LET I == JoinItems(st, rq)
  IN IF I = {} THEN {} ELSE { [ totalItemsSold |-> SumBy(I, "quantity") ] }

\* Query 3: previous-period summary
PrevPeriodQuery(st, rq) ==
  StatsGroup({ s \in st.sales : PrevPeriodMatch(rq, s) })

\* Query 4: the years that have sales
YearsQuery(st, rq) ==
  { [ year |-> YearOf(s.createdAt) ] : s \in st.sales }

\* Variant: the group stage counts line items instead of summing quantity.
TopProductQueryCount(st, rq) ==
  LET I == JoinItems(st, rq)
  IN { [ productId |-> p,
         quantity  |-> Cardinality({ it \in I : it.productId = p }) ]
       : p \in { it.productId : it \in I } }

\* Query 5: quantity per product in the period
TopProductQuery(st, rq) ==
  LET I == JoinItems(st, rq)
  IN { [ productId |-> p,
         quantity  |-> SumBy({ it \in I : it.productId = p }, "quantity") ]
       : p \in { it.productId : it \in I } }


\* Variant: the group key is the zero-based month.
MonthlyStatsQueryZeroBased(st, rq) ==
  LET S == { s \in st.sales : YearFilter(rq, s) }
  IN { [ month                |-> m - 1,
         totalAmountSales     |-> SumBy({ s \in S : MonthOf(s.createdAt) = m }, "totalAmount"),
         numberOfTransactions |-> Cardinality({ s \in S : MonthOf(s.createdAt) = m }) ]
       : m \in { MonthOf(s.createdAt) : s \in S } }

\* Query 6: $group by { $month: "$createdAt" } within the year
MonthlyStatsQuery(st, rq) ==
  LET S == { s \in st.sales : YearFilter(rq, s) }
  IN { [ month                |-> m,
         totalAmountSales     |-> SumBy({ s \in S : MonthOf(s.createdAt) = m }, "totalAmount"),
         numberOfTransactions |-> Cardinality({ s \in S : MonthOf(s.createdAt) = m }) ]
       : m \in { MonthOf(s.createdAt) : s \in S } }

\* Query 7: item quantities per month within the year
MonthlyItemStatsQuery(st, rq) ==
  LET I == { it \in st.items : \E s \in st.sales : s.id = it.saleId /\ YearFilter(rq, s) }
      MonthOfItem(it) == MonthOf((CHOOSE s \in st.sales : s.id = it.saleId).createdAt)
  IN { [ month     |-> m,
         itemsSold |-> SumBy({ it \in I : MonthOfItem(it) = m }, "quantity") ]
       : m \in { MonthOfItem(it) : it \in I } }

\* Query 8: cash-drawer amounts per payment method in the period
PaymentMethodQuery(st, rq) ==
  LET D == { d \in st.drawer : rq.periodStart <= d.createdAt /\ d.createdAt <= rq.periodEnd }
  IN { [ method |-> pm, amount |-> SumBy({ d \in D : d.paymentMethod = pm }, "amount") ]
       : pm \in { d.paymentMethod : d \in D } }

\* Query 9: refund statistics
RefundStatsQuery(st, rq) ==
  LET S == { s \in st.sales : RefundFilter(rq, s) }
  IN IF S = {} THEN {}
     ELSE { [ refundCount |-> Cardinality(S), refundAmount |-> SumBy(S, "totalAmount") ] }

\* Query 10: full distribution of quantity per product in the period
SalesByItemQuery(st, rq) == TopProductQuery(st, rq)

\* Query 11: totals and counts per cashier in the period
SalesByCashierQuery(st, rq) ==
  LET S == { s \in st.sales : DateFilter(rq, s) }
  IN { [ cashierId            |-> c,
         totalAmountSales     |-> SumBy({ s \in S : s.cashierId = c }, "totalAmount"),
         numberOfTransactions |-> Cardinality({ s \in S : s.cashierId = c }) ]
       : c \in { s.cashierId : s \in S } }

\* Query 12: totals per hour of day in the period
HourlyStatsQuery(st, rq) ==
  LET S == { s \in st.sales : DateFilter(rq, s) }
  IN { [ hour                 |-> h,
         totalAmountSales     |-> SumBy({ s \in S : HourOf(s.createdAt) = h }, "totalAmount"),
         numberOfTransactions |-> Cardinality({ s \in S : HourOf(s.createdAt) = h }) ]
       : h \in { HourOf(s.createdAt) : s \in S } }

NumQueries == 12
Queries == 1..NumQueries

\* The result the Record Store returns for sub-query q.
QueryResult(q, st, rq) ==
  CASE q = 1  -> CurrentPeriodQuery(st, rq)
    [] q = 2  -> ItemsStatsQuery(st, rq)
    [] q = 3  -> PrevPeriodQuery(st, rq)
    [] q = 4  -> YearsQuery(st, rq)
    [] q = 5  -> TopProductQuery(st, rq)
    [] q = 6  -> MonthlyStatsQuery(st, rq)
    [] q = 7  -> MonthlyItemStatsQuery(st, rq)
    [] q = 8  -> PaymentMethodQuery(st, rq)
    [] q = 9  -> RefundStatsQuery(st, rq)
    [] q = 10 -> SalesByItemQuery(st, rq)
    [] q = 11 -> SalesByCashierQuery(st, rq)
    [] q = 12 -> HourlyStatsQuery(st, rq)

\* ------------------------------------------------------------ report merge
\* row?.field || 0
Get(r, f) == IF f \in DOMAIN r THEN r[f] ELSE 0

ZeroStats ==
  [ totalAmountSales |-> 0, totalCostOfGoods |-> 0, grossProfit |-> 0,
    numberOfTransactions |-> 0 ]

ZeroRefund == [ refundCount |-> 0, refundAmount |-> 0 ]

\* const [stats] = result: the single group document, or the zero block
FirstOr(R, zero) == IF R = {} THEN zero ELSE CHOOSE r \in R : TRUE

\* the value of field f in the row of R whose key k equals v, or zero
BucketValue(R, k, v, f) ==
  IF \E r \in R : Get(r, k) = v
  THEN Get(CHOOSE r \in R : Get(r, k) = v, f)
  ELSE 0

\* 12 buckets, month 1..12 in order; a month without a row is zero
MonthlyTrend(monthlyStats, monthlyItemStats) ==
  [ m \in 1..12 |->
      [ month                |-> m,
        totalAmountSales     |-> BucketValue(monthlyStats, "month", m, "totalAmountSales"),
        numberOfTransactions |-> BucketValue(monthlyStats, "month", m, "numberOfTransactions"),
        itemsSold            |-> BucketValue(monthlyItemStats, "month", m, "itemsSold") ] ]


\* Variant: only the hours that have a row are reported.
HourlyStatsNoFill(hourlyStats) ==
  LET H == { i \in 1..24 : \E r \in hourlyStats : Get(r, "hour") = i - 1 }
  IN [ i \in H |->
         [ hour                 |-> i - 1,
           totalAmountSales     |-> BucketValue(hourlyStats, "hour", i - 1, "totalAmountSales"),
           numberOfTransactions |-> BucketValue(hourlyStats, "hour", i - 1, "numberOfTransactions") ] ]

\* 24 buckets, hour 0..23 in order; an hour without a row is zero
HourlyStats(hourlyStats) ==
  [ i \in 1..24 |->
      [ hour                 |-> i - 1,
        totalAmountSales     |-> BucketValue(hourlyStats, "hour", i - 1, "totalAmountSales"),
        numberOfTransactions |-> BucketValue(hourlyStats, "hour", i - 1, "numberOfTransactions") ] ]

\* N of the top-N products
TopN == 5

\* a ranks before b: larger quantity first, then smaller productId
RanksBefore(a, b) ==
  \/ Get(a, "quantity") > Get(b, "quantity")
  \/ /\ Get(a, "quantity") = Get(b, "quantity")
     /\ Get(a, "productId") < Get(b, "productId")

RECURSIVE Ranked(_)
\* $sort { quantity: -1, productId: 1 }
Ranked(R) ==
  IF R = {} THEN <<>>
  ELSE LET best == CHOOSE r \in R : \A o \in R : ~RanksBefore(o, r)
       IN <<best>> \o Ranked(R \ {best})

\* $sort, then $limit N
RankProducts(R) ==
  LET all == Ranked(R)
  IN SubSeq(all, 1, IF Len(all) < TopN THEN Len(all) ELSE TopN)

\* The Report merged from the twelve result slots.
Assemble(sl) ==
  [ currentPeriodStats     |-> FirstOr(sl[1], ZeroStats),
    itemsSoldTotal         |-> Get(FirstOr(sl[2], [totalItemsSold |-> 0]), "totalItemsSold"),
    previousPeriodStats    |-> FirstOr(sl[3], ZeroStats),
    topProducts            |-> RankProducts(sl[5]),
    monthlyTrend           |-> MonthlyTrend(sl[6], sl[7]),
    paymentMethodBreakdown |-> sl[8],
    refundStats            |-> FirstOr(sl[9], ZeroRefund),
    salesByItem            |-> sl[10],
    salesByCashier         |-> sl[11],
    hourlyStats            |-> HourlyStats(sl[12]) ]

EmptySlots == [ q \in Queries |-> {} ]

\* ----------------------------------------------------------------- handler
VARIABLES
  store,        \* the Record Store, by the ids of the sales it holds
  req,          \* the request of the current call
  pc,           \* handler position: "idle", "awaiting", "returned"
  status,       \* per sub-query promise: "idle", "inflight", "resolved", "rejected"
  slots,        \* Promise.all's values array, by position
  join,         \* the Promise.all promise: "none", "pending", "fulfilled", "rejected"
  joinReason,   \* the sub-query whose rejection rejected the batch (0: none)
  outcome,      \* what the caller observes
  issued,       \* sub-queries of this call issued to the Record Store
  suspensions,  \* awaits the handler has reached in this call
  failures,     \* transport failures injected in this call
  cancelled,    \* the caller has gone away
  runs,         \* calls started
  history       \* <<request, report>> of the calls that returned a Report

VARIABLES
  calls,        \* concurrent invocations of the handler, one record per caller
  demo,         \* DEMO_MODE, the persisted records and the last write's response
  guard,        \* a page guarded by usePermissionGuard
  seed          \* seedDefaultUser calls and the user store

vars == << store, req, pc, status, slots, join, joinReason, outcome, issued,
           suspensions, failures, cancelled, runs, history, calls, demo, guard, seed >>

\* the state of the other components
others == << calls, demo, guard, seed >>

\* The collections the sub-queries read.
RecordStore == StoreOf(store)

NoReport == [ generated |-> FALSE ]

NoOutcome == [ kind |-> "none", error |-> "", query |-> 0, report |-> NoReport ]

ReportOutcome(r) == [ kind |-> "report", error |-> "", query |-> 0, report |-> r ]

ErrorOutcome(name, q) ==
  [ kind |-> "error", error |-> name, query |-> q, report |-> NoReport ]


\* Variant: the year is not validated.
ValidPeriodNoYear(rq) == rq.periodStart <= rq.periodEnd

\* periodStart <= periodEnd and year within the supported range
ValidPeriod(rq) ==
  /\ rq.periodStart <= rq.periodEnd
  /\ MinSupportedYear <= rq.year
  /\ rq.year <= MaxSupportedYear


\* Variant: the previous-period query is issued whatever the flag says.
SkippedNever(rq) == {}

\* prevPeriodMatch ? Sale.aggregate([...]) : Promise.resolve([])
Skipped(rq) == IF rq.compareToPrevious THEN {} ELSE {3}


\* Variant: the batch fulfils on the first fulfilment (a race, not a join).
JoinAfterRace(j, st, ok) ==
  IF j # "pending" THEN j
  ELSE IF ~ok THEN "rejected"
  ELSE "fulfilled"

\* Variant: the batch waits for every member to settle and then fulfils,
\* whether or not a member was rejected.
JoinAfterSettled(j, st, ok) ==
  IF j # "pending" THEN j
  ELSE IF \A p \in Queries : st[p] \in {"resolved", "rejected"} THEN "fulfilled"
  ELSE "pending"

\* Promise.all after sub-query q of the batch settles (ok: it fulfilled):
\* the first rejection rejects the batch, the last fulfilment fulfils it.
JoinAfter(j, st, ok) ==
  IF j # "pending" THEN j
  ELSE IF ~ok THEN "rejected"
  ELSE IF \A p \in Queries : st[p] = "resolved" THEN "fulfilled"
  ELSE "pending"


\* Variant: fulfilment values are appended in completion order.
StoreValuePush(sl, st, q, v) ==
  [ sl EXCEPT ![Cardinality({ p \in Queries : st[p] = "resolved" }) + 1] = v ]

\* Promise.all stores a fulfilment value at the position of its promise
StoreValue(sl, st, q, v) == [ sl EXCEPT ![q] = v ]

\* The store of the concurrency specifications holds every sale.
SpecStores == { SaleIds }

SpecRequests ==
  { [ periodStart |-> 200, periodEnd |-> 300, compareToPrevious |-> TRUE,  year |-> BaseYear ],
    [ periodStart |-> 200, periodEnd |-> 300, compareToPrevious |-> FALSE, year |-> BaseYear ],
    [ periodStart |-> 300, periodEnd |-> 200, compareToPrevious |-> TRUE,  year |-> BaseYear ],
    [ periodStart |-> 200, periodEnd |-> 300, compareToPrevious |-> FALSE, year |-> MaxSupportedYear + 1 ] }

\* Callers that invoke the handler concurrently.
Callers == {"a", "b"}

IdleCall ==
  [ req |-> NoRequest, pc |-> "idle", status |-> [ q \in Queries |-> "idle" ],
    slots |-> EmptySlots, join |-> "none", joinReason |-> 0, outcome |-> NoOutcome ]

\* The value null, as a response.
Null == [ null |-> TRUE, success |-> FALSE, message |-> "" ]

\* Records a guarded write operation may touch, and their persisted states.
DemoKeys == {"product", "item", "setting"}

NoWrite == [ op |-> "none", key |-> "" ]

IdleDemo ==
  [ mode |-> TRUE, records |-> [ k \in DemoKeys |-> "absent" ],
    before |-> [ k \in DemoKeys |-> "absent" ],
    initial |-> [ k \in DemoKeys |-> "absent" ],
    last |-> NoWrite, checked |-> Null, response |-> Null ]

\* meData?.me is absent: role undefined, permissions defaulting to {}
NoUser == [ present |-> FALSE, role |-> "undefined", permissions |-> {} ]

\* "undefined" stands for an option that was not passed.
NoOptions ==
  [ module |-> "", action |-> "undefined", anyActions |-> <<>>, hasAnyActions |-> FALSE,
    redirectTo |-> "undefined" ]

NoResult == [ loading |-> FALSE, hasAccess |-> FALSE, userRole |-> "undefined" ]

\* The visitor is on the login page; no guarded page is mounted.
IdleGuard ==
  [ phase |-> "login", route |-> "/", options |-> NoOptions, loading |-> FALSE,
    user |-> NoUser, queried |-> FALSE, result |-> NoResult, redirect |-> "none",
    decision |-> "none" ]

Seeders == {"s1", "s2", "s3"}

\* The users collection: documents named "admin", and other users.
NoUsers == [ admins |-> 0, others |-> 0 ]

IdleSeed ==
  [ users |-> NoUsers, initial |-> NoUsers, pc |-> [ p \in Seeders |-> "idle" ],
    userCount |-> [ p \in Seeders |-> 0 ], log |-> [ p \in Seeders |-> "" ],
    created |-> {}, propagated |-> {} ]

InitOthers ==
  /\ calls = [ c \in Callers |-> IdleCall ]
  /\ demo = IdleDemo
  /\ guard = IdleGuard
  /\ seed = IdleSeed

InitHandler ==
  /\ req = NoRequest
  /\ pc = "idle"
  /\ status = [ q \in Queries |-> "idle" ]
  /\ slots = EmptySlots
  /\ join = "none"
  /\ joinReason = 0
  /\ outcome = NoOutcome
  /\ issued = {}
  /\ suspensions = 0
  /\ failures = 0
  /\ cancelled = FALSE
  /\ runs = 0
  /\ history = {}

Init ==
  /\ store \in SpecStores
  /\ InitHandler
  /\ InitOthers

\* saleReport(rq): validate, then build the array of twelve promises and
\* await Promise.all of it.
Invoke(rq) ==
  /\ pc = "idle"
  /\ runs < MaxRuns
  /\ req' = rq
  /\ runs' = runs + 1
  /\ failures' = 0
  /\ cancelled' = FALSE
  /\ slots' = EmptySlots
  /\ joinReason' = 0
  /\ IF ~ValidPeriod(rq)
     THEN /\ outcome' = ErrorOutcome("InvalidPeriod", 0)
          /\ pc' = "returned"
          /\ status' = [ q \in Queries |-> "idle" ]
          /\ issued' = {}
          /\ join' = "none"
          /\ suspensions' = 0
     ELSE /\ outcome' = NoOutcome
          /\ pc' = "awaiting"
          /\ status' = [ q \in Queries |->
                           IF q \in Skipped(rq) THEN "resolved" ELSE "inflight" ]
          /\ issued' = Queries \ Skipped(rq)
          /\ join' = "pending"
          /\ suspensions' = 1
  /\ UNCHANGED << store, history >>
  /\ UNCHANGED others

\* Variant: the pipeline of query 1 ends in a stage that rewrites the collection.
AfterAggregateOut(ids, q) == IF q = 1 THEN {} ELSE ids

\* The sales collection after aggregation q ran: the pipelines have no
\* writing stage.
AfterAggregate(ids, q) == ids

\* What the handler returns when it resumes from the await on a settled
\* batch: the Report merged from the slots, or the batch's rejection.
Resumed(j, sl, reason) ==
  IF j = "fulfilled"
  THEN ReportOutcome(Assemble(sl))
  ELSE ErrorOutcome("QueryFailure", reason)

\* Sub-query q completes: its promise fulfils with the store's result.  When
\* that settles the batch, the awaiting handler resumes in the same turn of
\* the event loop, before any other completion is delivered.
Resolve(q) ==
  /\ status[q] = "inflight"
  /\ status' = [ status EXCEPT ![q] = "resolved" ]
  /\ slots' = StoreValue(slots, status, q, QueryResult(q, RecordStore, req))
  /\ join' = JoinAfter(join, status', TRUE)
  /\ IF pc = "awaiting" /\ join' # "pending"
     THEN /\ pc' = "returned"
          /\ outcome' = Resumed(join', slots', joinReason)
     ELSE UNCHANGED << pc, outcome >>
  /\ store' = AfterAggregate(store, q)
  /\ UNCHANGED << req, joinReason, issued, suspensions, failures,
                  cancelled, runs, history >>
  /\ UNCHANGED others

\* Sub-query q fails in transport: its promise rejects.  The first rejection
\* rejects the batch and the awaiting handler resumes with it.
Reject(q) ==
  /\ status[q] = "inflight"
  /\ failures < MaxFailures
  /\ status' = [ status EXCEPT ![q] = "rejected" ]
  /\ failures' = failures + 1
  /\ join' = JoinAfter(join, status', FALSE)
  /\ joinReason' = IF join = "pending" /\ join' = "rejected" THEN q ELSE joinReason
  /\ IF pc = "awaiting" /\ join' # "pending"
     THEN /\ pc' = "returned"
          /\ outcome' = Resumed(join', slots, joinReason')
     ELSE UNCHANGED << pc, outcome >>
  /\ UNCHANGED << store, req, slots, issued, suspensions, cancelled, runs, history >>
  /\ UNCHANGED others

\* The caller disconnects or the request times out while the batch is
\* outstanding.  Nothing in the handler observes it.
CancelRequest ==
  /\ pc = "awaiting"
  /\ ~cancelled
  /\ cancelled' = TRUE
  /\ UNCHANGED << store, req, pc, status, slots, join, joinReason, outcome,
                  issued, suspensions, failures, runs, history >>
  /\ UNCHANGED others

Next ==
  \/ \E rq \in SpecRequests : Invoke(rq)
  \/ \E q \in Queries : Resolve(q)
  \/ \E q \in Queries : Reject(q)

Spec == Init /\ [][Next]_vars

\* The same handler with a caller that may go away during the batch.
NextCancel ==
  \/ Next
  \/ CancelRequest

SpecCancel == Init /\ [][NextCancel]_vars

\* ------------------------------------------- the same request, issued again
\* The caller receives the outcome; the handler is free for the next call.
Deliver ==
  /\ pc = "returned"
  /\ \A q \in Queries : status[q] # "inflight"
  /\ pc' = "idle"
  /\ history' = IF outcome.kind = "report"
                THEN history \cup { [ req |-> req, report |-> outcome.report ] }
                ELSE history
  /\ UNCHANGED << store, req, status, slots, join, joinReason, outcome, issued,
                  suspensions, failures, cancelled, runs >>
  /\ UNCHANGED others

NextTwice ==
  \/ \E rq \in SpecRequests : Invoke(rq)
  \/ \E q \in Queries : Resolve(q)
  \/ Deliver

SpecTwice == Init /\ [][NextTwice]_vars

\* ------------------------------------------------ the report as a function
\* The values Promise.all delivers when every sub-query fulfils.
BatchResults(st, rq) ==
  [ q \in Queries |-> IF q \in Skipped(rq) THEN {} ELSE QueryResult(q, st, rq) ]

\* saleReport on a store whose sub-queries all succeed.
SaleReport(st, rq) ==
  IF ~ValidPeriod(rq)
  THEN ErrorOutcome("InvalidPeriod", 0)
  ELSE ReportOutcome(Assemble(BatchResults(st, rq)))

InitAgg ==
  /\ store \in AllStores
  /\ InitHandler
  /\ InitOthers

Aggregate(rq) ==
  /\ pc = "idle"
  /\ req' = rq
  /\ outcome' = SaleReport(RecordStore, rq)
  /\ pc' = "returned"
  /\ runs' = runs + 1
  /\ UNCHANGED << store, status, slots, join, joinReason, issued, suspensions,
                  failures, cancelled, history >>
  /\ UNCHANGED others

NextAgg == \E rq \in Requests : Aggregate(rq)

SpecAgg == InitAgg /\ [][NextAgg]_vars

\* ------------------------------------------------------------- properties
Rejected == { q \in Queries : status[q] = "rejected" }
InFlight == { q \in Queries : status[q] = "inflight" }

\* C1: every applicable sub-query is dispatched before any result of the
\* batch is consumed, a Report exists only when every dispatched sub-query
\* has completed, and the handler has suspended exactly once, at the join.
C1_BatchThenJoin ==
  /\ (\E q \in Queries : status[q] # "idle") =>
        /\ issued = Queries \ Skipped(req)
        /\ \A q \in issued : status[q] # "idle"
  /\ outcome.kind = "report" =>
        /\ \A q \in issued : status[q] = "resolved"
        /\ join = "fulfilled"
  /\ suspensions <= 1
  /\ join # "none" => suspensions = 1

\* a Report returned after the twelve slots filled, one suspension
C1_Witness ==
  /\ pc = "returned"
  /\ outcome.kind = "report"
  /\ req.compareToPrevious
  /\ Cardinality(issued) = NumQueries
  /\ suspensions = 1

C3_SkippedPrevious ==
  (pc # "idle" /\ ValidPeriod(req) /\ ~req.compareToPrevious) =>
     /\ 3 \notin issued
     /\ status[3] = "resolved"
     /\ slots[3] = {}
     /\ outcome.query # 3
     /\ outcome.kind = "report" => outcome.report.previousPeriodStats = ZeroStats

\* a Report without comparison, on a store whose preceding window has sales
C3_Witness ==
  /\ pc = "returned"
  /\ outcome.kind = "report"
  /\ ~req.compareToPrevious
  /\ PrevPeriodQuery(RecordStore, req) # {}

\* C4: once the call has returned an error, or the request was cancelled,
\* no sub-query of the call is still running against the Record Store.
C4_NoOrphanQueries ==
  ((pc = "returned" /\ outcome.kind = "error") \/ cancelled) => InFlight = {}

\* C5: an InvalidPeriod outcome is produced with no sub-query dispatched,
\* and every request with periodStart > periodEnd or an unsupported year
\* gets that outcome.
C5_ValidateBeforeDispatch ==
  /\ outcome.error = "InvalidPeriod" =>
        /\ issued = {}
        /\ \A q \in Queries : status[q] = "idle"
        /\ suspensions = 0
  /\ (pc # "idle" /\ (req.periodStart > req.periodEnd
                        \/ req.year < MinSupportedYear
                        \/ req.year > MaxSupportedYear)) =>
        /\ outcome.error = "InvalidPeriod"
        /\ issued = {}

\* a request with an unsupported year was rejected
C5_Witness ==
  /\ pc = "returned"
  /\ outcome.error = "InvalidPeriod"
  /\ req.periodStart <= req.periodEnd
  /\ req.year > MaxSupportedYear

\* C6: two calls with the same request against the unchanged store return
\* the same Report, whatever the order in which their sub-queries completed:
\* each slot is filled with its own sub-query's result in any order.
C6_Idempotent ==
  /\ \A q \in issued : status[q] = "resolved" => slots[q] = QueryResult(q, RecordStore, req)
  /\ \A h1, h2 \in history : h1.req = h2.req => h1.report = h2.report
  /\ \A h \in history :
        (outcome.kind = "report" /\ h.req = req) => h.report = outcome.report

\* the second call of the same request returned, on a store with sales
C6_Witness ==
  /\ runs = 2
  /\ pc = "returned"
  /\ outcome.kind = "report"
  /\ RecordStore.sales # {}
  /\ \E h \in history : h.req = req

\* the COMPLETED sales of the selected year that fall in calendar month m
SalesOfMonth(m) ==
  { s \in RecordStore.sales :
      /\ s.status = "COMPLETED"
      /\ YearOf(s.createdAt) = req.year
      /\ MonthOf(s.createdAt) = m }

\* C7: monthlyTrend has exactly 12 entries tagged 1..12 in order; each holds
\* the totals of its month in the selected year, zero for a month without
\* transactions.
C7_MonthlyTrend ==
  outcome.kind = "report" =>
    LET mt == outcome.report.monthlyTrend
    IN /\ DOMAIN mt = 1..12
       /\ \A m \in 1..12 :
            /\ mt[m].month = m
            /\ mt[m].totalAmountSales = SumBy(SalesOfMonth(m), "totalAmount")
            /\ mt[m].numberOfTransactions = Cardinality(SalesOfMonth(m))
            /\ SalesOfMonth(m) = {} =>
                 /\ mt[m].totalAmountSales = 0
                 /\ mt[m].numberOfTransactions = 0
                 /\ mt[m].itemsSold = 0

\* a trend with sales in January and March and none in February
C7_Witness ==
  /\ outcome.kind = "report"
  /\ outcome.report.monthlyTrend[1].totalAmountSales > 0
  /\ outcome.report.monthlyTrend[2].totalAmountSales = 0
  /\ outcome.report.monthlyTrend[3].totalAmountSales > 0

\* the COMPLETED sales of the period that fall in hour h of the day
SalesOfHour(h) ==
  { s \in RecordStore.sales :
      /\ s.status = "COMPLETED"
      /\ req.periodStart <= s.createdAt
      /\ s.createdAt <= req.periodEnd
      /\ s.createdAt % 24 = h }

\* C8: hourlyStats has 24 entries, one per hour 0..23; each holds the totals
\* of its hour in the period, zero for an hour without transactions.
C8_HourlyStats ==
  outcome.kind = "report" =>
    LET hs == outcome.report.hourlyStats
    IN /\ DOMAIN hs = 1..24
       /\ \A i \in 1..24 :
            /\ hs[i].hour = i - 1
            /\ hs[i].totalAmountSales = SumBy(SalesOfHour(i - 1), "totalAmount")
            /\ hs[i].numberOfTransactions = Cardinality(SalesOfHour(i - 1))

\* hourly statistics with sales in one hour and none in the others
C8_Witness ==
  /\ outcome.kind = "report"
  /\ \E i \in 1..24 : outcome.report.hourlyStats[i].totalAmountSales > 0
  /\ \E i \in 1..24 : outcome.report.hourlyStats[i].numberOfTransactions = 0

\* no transaction of any status lies in the request's period
NoSaleInPeriod ==
  \A s \in RecordStore.sales : ~(req.periodStart <= s.createdAt /\ s.createdAt <= req.periodEnd)

CompletedIn(lo, hi) ==
  { s \in RecordStore.sales : s.status = "COMPLETED" /\ lo <= s.createdAt /\ s.createdAt < hi }

\* C10: with comparison requested the previous-period block aggregates
\* exactly the COMPLETED sales of [periodStart - (periodEnd - periodStart),
\* periodStart), and the two blocks together count each sale of the two
\* windows once.
C10_PreviousWindow ==
  (outcome.kind = "report" /\ req.compareToPrevious) =>
    LET lo   == req.periodStart - (req.periodEnd - req.periodStart)
        prev == CompletedIn(lo, req.periodStart)
        both == CompletedIn(lo, req.periodEnd + 1)
        r    == outcome.report
    IN /\ r.previousPeriodStats.numberOfTransactions = Cardinality(prev)
       /\ r.previousPeriodStats.totalAmountSales = SumBy(prev, "totalAmount")
       /\ r.previousPeriodStats.totalCostOfGoods = SumBy(prev, "costOfGoods")
       /\ r.previousPeriodStats.grossProfit = SumBy(prev, "grossProfit")
       /\ r.currentPeriodStats.numberOfTransactions
            + r.previousPeriodStats.numberOfTransactions = Cardinality(both)
       /\ r.currentPeriodStats.totalAmountSales
            + r.previousPeriodStats.totalAmountSales = SumBy(both, "totalAmount")

\* a comparison whose store has a sale exactly at periodStart and one before
C10_Witness ==
  /\ outcome.kind = "report"
  /\ req.compareToPrevious
  /\ req.periodStart < req.periodEnd
  /\ \E s \in RecordStore.sales : s.status = "COMPLETED" /\ s.createdAt = req.periodStart
  /\ outcome.report.previousPeriodStats.numberOfTransactions > 0

\* the sales with the given status created in the request's inclusive window
InWindow(st) ==
  { s \in RecordStore.sales :
      /\ s.status = st
      /\ req.periodStart <= s.createdAt
      /\ s.createdAt <= req.periodEnd }

\* C11: currentPeriodStats counts and sums exactly the COMPLETED sales created
\* within [periodStart, periodEnd], and refundStats exactly the REFUNDED ones.
C11_CurrentAndRefundStats ==
  outcome.kind = "report" =>
    LET r == outcome.report
    IN /\ r.currentPeriodStats.numberOfTransactions = Cardinality(InWindow("COMPLETED"))
       /\ r.currentPeriodStats.totalAmountSales = SumBy(InWindow("COMPLETED"), "totalAmount")
       /\ r.currentPeriodStats.totalCostOfGoods = SumBy(InWindow("COMPLETED"), "costOfGoods")
       /\ r.currentPeriodStats.grossProfit = SumBy(InWindow("COMPLETED"), "grossProfit")
       /\ r.refundStats.refundCount = Cardinality(InWindow("REFUNDED"))
       /\ r.refundStats.refundAmount = SumBy(InWindow("REFUNDED"), "totalAmount")

\* a window holding COMPLETED, REFUNDED and VOIDED sales, with a COMPLETED
\* sale outside it
C11_Witness ==
  /\ outcome.kind = "report"
  /\ InWindow("COMPLETED") # {}
  /\ InWindow("REFUNDED") # {}
  /\ InWindow("VOIDED") # {}
  /\ \E s \in RecordStore.sales : s.status = "COMPLETED" /\ s.createdAt < req.periodStart

\* the line items of the COMPLETED sales of the period
ItemsInWindow ==
  { it \in RecordStore.items : \E s \in InWindow("COMPLETED") : s.id = it.saleId }

\* C12: topProducts lists at most N products, each with its summed quantity
\* in the period, in descending quantity; equal quantities appear in
\* ascending productId order.
C12_TopProducts ==
  outcome.kind = "report" =>
    LET tp == outcome.report.topProducts
    IN /\ Len(tp) <= TopN
       /\ \A i \in 1..Len(tp) :
            /\ \E it \in ItemsInWindow : it.productId = tp[i].productId
            /\ tp[i].quantity =
                 SumBy({ it \in ItemsInWindow : it.productId = tp[i].productId }, "quantity")
       /\ \A i, j \in 1..Len(tp) :
            i < j => \/ tp[i].quantity > tp[j].quantity
                     \/ /\ tp[i].quantity = tp[j].quantity
                        /\ tp[i].productId < tp[j].productId

\* more than N products sold, the list cut at N, two neighbours tied
C12_Witness ==
  /\ outcome.kind = "report"
  /\ Cardinality({ it.productId : it \in ItemsInWindow }) > TopN
  /\ Len(outcome.report.topProducts) = TopN
  /\ \E i \in 1..(TopN - 1) :
       outcome.report.topProducts[i].quantity = outcome.report.topProducts[i + 1].quantity

\* ----------------------------------------------- a sequence of invocations
\* The sub-query at the head of the batch still in flight.
Lowest(q) == \A o \in Queries : status[o] = "inflight" => q <= o

\* The head sub-query settles, either way.
SettleNext == \E q \in Queries : Lowest(q) /\ (Resolve(q) \/ Reject(q))

\* Stores a sequence of calls starts from: empty, without a completed sale, full.
FrameStores == { {}, {4, 7}, SaleIds }

InitFrame ==
  /\ store \in FrameStores
  /\ InitHandler
  /\ InitOthers

\* Calls one after another on any store; each may succeed, fail or lose its caller.
NextFrame ==
  \/ \E rq \in SpecRequests : Invoke(rq)
  \/ SettleNext
  \/ CancelRequest
  \/ Deliver

SpecFrame == InitFrame /\ [][NextFrame]_vars

\* C13: no step of any call of the aggregator, successful, failed or
\* cancelled, changes the Record Store's three collections.
C13_ReadOnly == [][StoreOf(store') = StoreOf(store) /\ store' = store]_vars

\* a call that succeeded was followed by a cancelled call that failed
C13_Witness ==
  /\ history # {}
  /\ runs = MaxRuns
  /\ pc = "returned"
  /\ cancelled
  /\ outcome.kind = "error"
  /\ outcome.error = "QueryFailure"
  /\ store # {}

\* ------------------------------------------------- concurrent invocations
PairRequests ==
  SpecRequests \cup
    { [ periodStart |-> 100, periodEnd |-> 300, compareToPrevious |-> TRUE, year |-> BaseYear ] }

\* Variant: the fulfilment values are kept in one array shared by the calls.
WithValueShared(cs, c, q, v) ==
  [ d \in Callers |-> [ cs[d] EXCEPT !.slots = StoreValue(@, cs[c].status, q, v) ] ]

\* The values of a batch are locals of the invocation that awaits it.
WithValue(cs, c, q, v) ==
  [ cs EXCEPT ![c].slots = StoreValue(@, cs[c].status, q, v) ]

InitPair ==
  /\ store \in SpecStores
  /\ InitHandler
  /\ InitOthers

\* Caller c invokes saleReport: validation, then the batch is dispatched.
CallInvoke(c, rq) ==
  /\ calls[c].pc = "idle"
  /\ calls' = [ calls EXCEPT ![c] =
       IF ~ValidPeriod(rq)
       THEN [ IdleCall EXCEPT !.req = rq, !.pc = "returned",
                              !.outcome = ErrorOutcome("InvalidPeriod", 0) ]
       ELSE [ IdleCall EXCEPT !.req = rq, !.pc = "awaiting", !.join = "pending",
                              !.status = [ q \in Queries |->
                                 IF q \in Skipped(rq) THEN "resolved" ELSE "inflight" ] ] ]
  /\ UNCHANGED << store, req, pc, status, slots, join, joinReason, outcome, issued,
                  suspensions, failures, cancelled, runs, history, demo, guard, seed >>

\* The head sub-query of c's batch still in flight.
LowestOf(c, q) == \A o \in Queries : calls[c].status[o] = "inflight" => q <= o

\* Sub-queries rejected so far, over all calls.
PairFailures ==
  Cardinality({ x \in Callers \X Queries : calls[x[1]].status[x[2]] = "rejected" })

\* c's record once its batch has moved to join j with first rejection reason.
Settled(cl, j, reason) ==
  IF cl.pc = "awaiting" /\ j # "pending"
  THEN [ cl EXCEPT !.join = j, !.joinReason = reason, !.pc = "returned",
                   !.outcome = Resumed(j, cl.slots, reason) ]
  ELSE [ cl EXCEPT !.join = j, !.joinReason = reason ]

\* Sub-query q of c's batch fulfils.
CallResolve(c, q) ==
  /\ calls[c].status[q] = "inflight"
  /\ LowestOf(c, q)
  /\ LET v  == QueryResult(q, RecordStore, calls[c].req)
         st == [ calls[c].status EXCEPT ![q] = "resolved" ]
         cs == [ WithValue(calls, c, q, v) EXCEPT ![c].status = st ]
     IN calls' = [ cs EXCEPT ![c] =
                     Settled(@, JoinAfter(@.join, st, TRUE), @.joinReason) ]
  /\ UNCHANGED << store, req, pc, status, slots, join, joinReason, outcome, issued,
                  suspensions, failures, cancelled, runs, history, demo, guard, seed >>

\* Sub-query q of c's batch rejects.
CallReject(c, q) ==
  /\ calls[c].status[q] = "inflight"
  /\ LowestOf(c, q)
  /\ PairFailures < MaxFailures
  /\ LET st == [ calls[c].status EXCEPT ![q] = "rejected" ]
         j  == JoinAfter(calls[c].join, st, FALSE)
         rs == IF calls[c].join = "pending" /\ j = "rejected"
               THEN q ELSE calls[c].joinReason
     IN calls' = [ calls EXCEPT ![c] = Settled([ @ EXCEPT !.status = st ], j, rs) ]
  /\ UNCHANGED << store, req, pc, status, slots, join, joinReason, outcome, issued,
                  suspensions, failures, cancelled, runs, history, demo, guard, seed >>

NextPair ==
  \/ \E c \in Callers, rq \in PairRequests : CallInvoke(c, rq)
  \/ \E c \in Callers, q \in Queries : CallResolve(c, q)
  \/ \E c \in Callers, q \in Queries : CallReject(c, q)

SpecPair == InitPair /\ [][NextPair]_vars

RejectedOf(c) == { q \in Queries : calls[c].status[q] = "rejected" }

\* The outcome of a call running alone whose sub-queries in failed reject.
AloneOutcome(rq, failed) ==
  IF ~ValidPeriod(rq) \/ failed = {}
  THEN SaleReport(RecordStore, rq)
  ELSE ErrorOutcome("QueryFailure", CHOOSE q \in failed : \A o \in failed : q <= o)

handler == << store, req, pc, status, slots, join, joinReason, outcome, issued,
              suspensions, failures, cancelled, runs, history >>

DemoMessage == "Demo mode - Create/Update/Delete operations are disabled"

\* ./response: an error response carrying the message
errorResponse(message) == [ null |-> FALSE, success |-> FALSE, message |-> message ]

successResponse == [ null |-> FALSE, success |-> TRUE, message |-> "ok" ]

\* Variant: the flag is not consulted.
checkDemoModeNever(mode) == Null

\* checkDemoMode, reading the constant DEMO_MODE
checkDemoMode(mode) ==
  IF mode THEN errorResponse(DemoMessage) ELSE Null

WriteOps == {"create", "update", "delete"}

\* The persisted records after write operation op on record k.
Written(recs, op, k) ==
  [ recs EXCEPT ![k] =
      IF op = "create" THEN (IF @ = "absent" THEN "v1" ELSE @)
      ELSE IF op = "update" THEN (IF @ = "v1" THEN "v2" ELSE IF @ = "v2" THEN "v1" ELSE @)
      ELSE "absent" ]

InitDemo ==
  /\ store \in SpecStores
  /\ InitHandler
  /\ calls = [ c \in Callers |-> IdleCall ]
  /\ guard = IdleGuard
  /\ seed = IdleSeed
  /\ \E m \in BOOLEAN, recs \in [ DemoKeys -> {"absent", "v1"} ] :
       demo = [ IdleDemo EXCEPT !.mode = m, !.records = recs, !.before = recs,
                                !.initial = recs ]

\* A write operation guarded by checkDemoMode: it returns the blocking
\* response when there is one and performs the write otherwise.
GuardedWrite(op, k) ==
  /\ LET blocked == checkDemoMode(demo.mode)
     IN demo' = IF ~blocked.null
                THEN [ demo EXCEPT !.last = [ op |-> op, key |-> k ], !.checked = blocked,
                                   !.before = demo.records, !.response = blocked ]
                ELSE [ demo EXCEPT !.last = [ op |-> op, key |-> k ], !.checked = blocked,
                                   !.before = demo.records,
                                   !.records = Written(demo.records, op, k),
                                   !.response = successResponse ]
  /\ UNCHANGED << handler, calls, guard, seed >>

NextDemo == \E op \in WriteOps, k \in DemoKeys : GuardedWrite(op, k)

SpecDemo == InitDemo /\ [][NextDemo]_vars

\* C15: with DEMO_MODE true every call of checkDemoMode returns the fixed
\* error response, the guarded write returns it and the persisted records
\* stay as they were; with DEMO_MODE false it returns null and the write is
\* performed.
C15_DemoGuard ==
  demo.last.op # "none" =>
    IF demo.mode
    THEN /\ demo.checked = [ null |-> FALSE, success |-> FALSE,
                 message |-> "Demo mode - Create/Update/Delete operations are disabled" ]
         /\ demo.response = demo.checked
         /\ demo.records = demo.initial
    ELSE /\ demo.checked = Null
         /\ demo.response.success
         /\ demo.records = Written(demo.before, demo.last.op, demo.last.key)

\* in demo mode a delete of a persisted record was attempted and refused
C15_Witness ==
  /\ demo.mode
  /\ demo.last.op = "delete"
  /\ demo.records[demo.last.key] = "v1"
  /\ ~demo.response.success
  /\ ~demo.response.null

\* ------------------------------------------------------ usePermissionGuard
PermissionActions == {"view", "edit"}

GuardModules == {"product"}

\* userPermissions as the set of (module, action) pairs it grants
PermissionMaps == SUBSET (GuardModules \X PermissionActions)

Users ==
  { [ present |-> TRUE, role |-> r, permissions |-> pm ] :
      r \in {"SUPER_ADMIN", "CASHIER"}, pm \in PermissionMaps }

\* The options a page passes to the hook.
GuardOptions ==
  { [ module |-> m, action |-> a, anyActions |-> l, hasAnyActions |-> h, redirectTo |-> t ] :
      m \in GuardModules, a \in PermissionActions \cup {"undefined"},
      l \in { <<>>, <<"view">>, <<"edit">>, <<"view", "edit">> }, h \in BOOLEAN,
      t \in {"undefined", "/pos", ""} }

\* utils/permissions
hasPermission(permissions, module, action) == << module, action >> \in permissions

hasAnyPermission(permissions, module, actions) ==
  \E i \in 1..Len(actions) : hasPermission(permissions, module, actions[i])

\* redirectTo = "/dashboard" by default
RedirectTarget(o) == IF o.redirectTo = "undefined" THEN "/dashboard" ELSE o.redirectTo

\* Variant: the role is not looked at.
IsSuperAdminNever(u) == FALSE

\* userRole === "SUPER_ADMIN"
IsSuperAdmin(u) == u.role = "SUPER_ADMIN"

\* hasAccess as the effect computes it
EffectAccess(u, o) ==
  IF o.action # "undefined"
  THEN hasPermission(u.permissions, o.module, o.action)
  ELSE IF o.hasAnyActions /\ Len(o.anyActions) > 0
       THEN hasAnyPermission(u.permissions, o.module, o.anyActions)
       ELSE hasPermission(u.permissions, o.module, "view")

\* The effect: the route router.replace is called with ("none": no call) and
\* the access decision.
Effect(mode, loading, u, o) ==
  IF mode THEN [ redirect |-> "none", decision |-> "none" ]
  ELSE IF loading THEN [ redirect |-> "none", decision |-> "none" ]
  ELSE IF ~u.present THEN [ redirect |-> "/", decision |-> "none" ]
  ELSE IF IsSuperAdmin(u) THEN [ redirect |-> "none", decision |-> "granted" ]
  ELSE IF EffectAccess(u, o)
       THEN [ redirect |-> "none", decision |-> "granted" ]
       ELSE [ redirect |-> IF RedirectTarget(o) # "" THEN RedirectTarget(o) ELSE "none",
              decision |-> "denied" ]

\* Variant: the hook returns the computed result in demo mode too.
ReturnedNoDemo(mode, loading, u, o) ==
  [ loading |-> loading,
    hasAccess |-> \/ u.role = "SUPER_ADMIN"
                  \/ IF o.action # "undefined"
                     THEN hasPermission(u.permissions, o.module, o.action)
                     ELSE IF o.hasAnyActions
                          THEN hasAnyPermission(u.permissions, o.module, o.anyActions)
                          ELSE hasPermission(u.permissions, o.module, "view"),
    userRole |-> u.role ]

\* The value the hook returns.
Returned(mode, loading, u, o) ==
  IF mode
  THEN [ loading |-> FALSE, hasAccess |-> TRUE, userRole |-> "SUPER_ADMIN" ]
  ELSE [ loading |-> loading,
         hasAccess |-> \/ u.role = "SUPER_ADMIN"
                       \/ IF o.action # "undefined"
                          THEN hasPermission(u.permissions, o.module, o.action)
                          ELSE IF o.hasAnyActions
                               THEN hasAnyPermission(u.permissions, o.module, o.anyActions)
                               ELSE hasPermission(u.permissions, o.module, "view"),
         userRole |-> u.role ]

\* skip: DEMO_MODE
QuerySkipped(mode) == mode

\* A render of the hook followed by its effect.
Rendered(g, mode) ==
  LET e == Effect(mode, g.loading, g.user, g.options)
  IN [ g EXCEPT !.result = Returned(mode, g.loading, g.user, g.options),
                !.redirect = e.redirect,
                !.decision = e.decision,
                !.route = IF e.redirect # "none" THEN e.redirect ELSE @ ]

InitGuard ==
  /\ store \in SpecStores
  /\ InitHandler
  /\ calls = [ c \in Callers |-> IdleCall ]
  /\ seed = IdleSeed
  /\ guard = IdleGuard
  /\ \E m \in BOOLEAN : demo = [ IdleDemo EXCEPT !.mode = m ]

\* LoginPage's effect: router.push("/dashboard")
LoginRedirect ==
  /\ guard.phase = "login"
  /\ guard' = [ guard EXCEPT !.phase = "page", !.route = "/dashboard" ]
  /\ UNCHANGED << handler, calls, demo, seed >>

\* A page mounts the hook with options o: the user query starts unless it is
\* skipped, the hook returns and its effect runs.
Mount(o) ==
  /\ guard.phase \in {"page", "guarding"}
  /\ guard' = Rendered([ guard EXCEPT !.phase = "guarding", !.options = o,
                                      !.loading = ~QuerySkipped(demo.mode),
                                      !.queried = ~QuerySkipped(demo.mode),
                                      !.user = NoUser ],
                       demo.mode)
  /\ UNCHANGED << handler, calls, demo, seed >>

\* The user query completes with the current user, or with none; the hook
\* renders again and its effect runs.
QueryCompletes(u) ==
  /\ guard.phase = "guarding"
  /\ guard.queried
  /\ guard.loading
  /\ guard' = Rendered([ guard EXCEPT !.loading = FALSE, !.user = u ], demo.mode)
  /\ UNCHANGED << handler, calls, demo, seed >>

NextGuard ==
  \/ LoginRedirect
  \/ \E o \in GuardOptions : Mount(o)
  \/ \E u \in Users \cup {NoUser} : QueryCompletes(u)

SpecGuard == InitGuard /\ [][NextGuard]_vars

\* The permission the options require of a user.
HasRequired(u, o) ==
  IF o.action # "undefined" THEN << o.module, o.action >> \in u.permissions
  ELSE IF o.hasAnyActions /\ o.anyActions # <<>>
       THEN \E i \in 1..Len(o.anyActions) : << o.module, o.anyActions[i] >> \in u.permissions
       ELSE << o.module, "view" >> \in u.permissions

\* the hook has run outside demo mode
Guarding == ~demo.mode /\ guard.phase = "guarding"

\* the user query has delivered an authenticated user
Loaded == Guarding /\ ~guard.loading /\ guard.user.present

\* C16, as claimed: outside demo mode a loaded user who lacks the required
\* permission is redirected to redirectTo, a SUPER_ADMIN is never redirected
\* and nothing is redirected while the query is loading.
C16_RedirectsWhenDenied ==
  /\ (Guarding /\ guard.loading) => guard.redirect = "none"
  /\ (Loaded /\ guard.user.role = "SUPER_ADMIN") => guard.redirect = "none"
  /\ (Loaded /\ guard.user.role # "SUPER_ADMIN" /\ ~HasRequired(guard.user, guard.options))
       => /\ guard.redirect = (IF guard.options.redirectTo = "undefined"
                               THEN "/dashboard" ELSE guard.options.redirectTo)
          /\ guard.route = guard.redirect

\* C16, amended: the redirect is issued when redirectTo is not the empty
\* string; with an empty redirectTo the user stays on the page.
C16_RedirectsUnlessEmpty ==
  /\ (Guarding /\ guard.loading) => guard.redirect = "none"
  /\ (Loaded /\ guard.user.role = "SUPER_ADMIN") => guard.redirect = "none"
  /\ (Loaded /\ guard.user.role # "SUPER_ADMIN" /\ ~HasRequired(guard.user, guard.options))
       => IF guard.options.redirectTo = ""
          THEN guard.redirect = "none"
          ELSE /\ guard.redirect = (IF guard.options.redirectTo = "undefined"
                                    THEN "/dashboard" ELSE guard.options.redirectTo)
               /\ guard.route = guard.redirect

\* a cashier without the required edit permission was sent to the default route
C16_Witness ==
  /\ Loaded
  /\ guard.user.role = "CASHIER"
  /\ guard.options.action = "edit"
  /\ guard.options.redirectTo = "undefined"
  /\ << "product", "edit" >> \notin guard.user.permissions
  /\ guard.redirect = "/dashboard"

\* C17: in demo mode the hook returns loading false and hasAccess true for
\* every module, action and anyActions, the user query is skipped and no
\* redirect is issued: the visitor sent from the login page stays on /dashboard.
C17_DemoFullAccess ==
  (demo.mode /\ guard.phase = "guarding") =>
    /\ ~guard.result.loading
    /\ guard.result.hasAccess
    /\ ~guard.queried
    /\ guard.redirect = "none"
    /\ guard.route = "/dashboard"

\* in demo mode a page requiring edit was mounted after the login redirect
C17_Witness ==
  /\ demo.mode
  /\ guard.phase = "guarding"
  /\ guard.options.action = "edit"
  /\ guard.route = "/dashboard"
  /\ guard.result.hasAccess

\* C18, as claimed: for a loaded, authenticated user outside demo mode the
\* returned hasAccess equals the access decision of the effect.
C18_SameDecision ==
  Loaded => (guard.result.hasAccess <=> guard.decision = "granted")

\* --------------------------------------------------------- seedDefaultUser
\* error.code of a duplicate key
DuplicateKey == 11000

\* error.code of any other failure of the store
OtherCode == 1

\* User.countDocuments()
CountDocuments(users) == users.admins + users.others

\* Variant: the default admin is created whatever the count.
ShouldCreateAlways(userCount) == TRUE

\* userCount === 0
ShouldCreate(userCount) == userCount = 0

\* The catch block: what it logs, and whether it throws again (it never does).
Caught(code) ==
  [ log |-> IF code = DuplicateKey THEN "already exists" ELSE "error", rethrown |-> FALSE ]

\* Call p ends in the catch block with an error of the given code.
Failed(sd, p, code) ==
  [ sd EXCEPT !.pc[p] = "done", !.log[p] = Caught(code).log,
              !.propagated = IF Caught(code).rethrown THEN @ \cup {p} ELSE @ ]

InitSeed ==
  /\ store \in SpecStores
  /\ InitHandler
  /\ calls = [ c \in Callers |-> IdleCall ]
  /\ demo = IdleDemo
  /\ guard = IdleGuard
  /\ \E a \in {0, 1}, o \in {0, 1} :
       seed = [ IdleSeed EXCEPT !.users = [ admins |-> a, others |-> o ],
                                !.initial = [ admins |-> a, others |-> o ] ]

\* await User.countDocuments(): with users present the call logs and ends.
Count(p) ==
  /\ seed.pc[p] = "idle"
  /\ LET n == CountDocuments(seed.users)
     IN seed' = IF ShouldCreate(n)
                THEN [ seed EXCEPT !.pc[p] = "hashing", !.userCount[p] = n ]
                ELSE [ seed EXCEPT !.pc[p] = "done", !.userCount[p] = n,
                                   !.log[p] = "already has users" ]
  /\ UNCHANGED << handler, calls, demo, guard >>

\* The store fails the count.
CountFails(p) ==
  /\ seed.pc[p] = "idle"
  /\ seed' = Failed(seed, p, OtherCode)
  /\ UNCHANGED << handler, calls, demo, guard >>

\* await bcrypt.hash("admin123", 10)
Hash(p) ==
  /\ seed.pc[p] = "hashing"
  /\ seed' = [ seed EXCEPT !.pc[p] = "creating" ]
  /\ UNCHANGED << handler, calls, demo, guard >>

\* await User.create({username: "admin", ...}): the unique index rejects a
\* second "admin" with code 11000.
Create(p) ==
  /\ seed.pc[p] = "creating"
  /\ seed' = IF seed.users.admins > 0
             THEN Failed(seed, p, DuplicateKey)
             ELSE [ seed EXCEPT !.users.admins = @ + 1, !.pc[p] = "done",
                                !.log[p] = "created", !.created = @ \cup {p} ]
  /\ UNCHANGED << handler, calls, demo, guard >>

\* The store fails the insert for another reason.
CreateFails(p) ==
  /\ seed.pc[p] = "creating"
  /\ seed' = Failed(seed, p, OtherCode)
  /\ UNCHANGED << handler, calls, demo, guard >>

NextSeed ==
  \/ \E p \in Seeders : Count(p)
  \/ \E p \in Seeders : CountFails(p)
  \/ \E p \in Seeders : Hash(p)
  \/ \E p \in Seeders : Create(p)
  \/ \E p \in Seeders : CreateFails(p)

SpecSeed == InitSeed /\ [][NextSeed]_vars

\* C19: whatever the interleaving of the calls, a user is created only by a
\* call that counted zero users, the store never holds more than one default
\* admin, a store that had users at the start is unchanged, and no call
\* propagates an error.
C19_SeedOnce ==
  /\ \A p \in seed.created : seed.userCount[p] = 0
  /\ seed.users.admins <= 1
  /\ seed.users.admins + seed.users.others <= seed.initial.admins + seed.initial.others + 1
  /\ (seed.initial.admins + seed.initial.others > 0) => seed.users = seed.initial
  /\ seed.propagated = {}

\* on an empty store two calls counted zero, one created the admin and the
\* other was refused as a duplicate; a third call found the user
C19_Witness ==
  \E p, q, r \in Seeders :
    /\ seed.log[p] = "created"
    /\ seed.log[q] = "already exists"
    /\ seed.log[r] = "already has users"
    /\ seed.userCount[q] = 0
    /\ seed.userCount[r] = 1
    /\ seed.users.admins = 1

====
